---- MODULE Spec2Model ----
(***************************************************************************)
(* A model of scripts/generate_repo.py: the RPM repository generator.      *)
(*                                                                         *)
(* Spec     the invocations of main() against one output directory: the   *)
(*          packages directory, the manifest, the index metadata and the  *)
(*          descriptor persist from one invocation to the next.           *)
(* SelSpec  fetch_releases as a function of the provider's release list   *)
(*          and the project's keep_versions.                              *)
(***************************************************************************)
EXTENDS Integers, Sequences, FiniteSets, TLC

VARIABLES
    disk,                 \* packages directory: filename -> content, or "absent"
    packages_dir_exists,  \* whether output/packages was created
    manifest,             \* packages.json: [exists, packages, updated]
    repomd,               \* packages/repodata/repomd.xml: [exists, files]
    repomd_asc,           \* whether repomd.xml.asc exists
    pubkey,               \* whether RPM-GPG-KEY-<name> exists
    repo_file,            \* the .repo descriptor: whether it exists, its gpg stanza
    runs,                 \* invocations started so far
    pc,                   \* position of the running invocation in main()
    args,                 \* the parsed command line of the invocation
    sign_packages,        \* settings.sign_packages of projects.yaml
    projects_to_process,  \* main's list of the same name
    preserved_packages,   \* main's list of the same name
    new_packages,         \* main's list of the same name
    proj_idx,             \* index (1-based) of the project the loop is at
    releases,             \* the current project's releases still to process
    exit_status,          \* what exit(main() or 0) passes to the system, -1 before
    ops,                  \* the side-effecting calls made by this invocation
    visited,              \* the repos whose loop body was entered
    failed,               \* <<repo, what raised>> of each project the except caught
    pre,                  \* the output directory as the invocation found it
    downloaded,           \* the files download_file wrote whole in this invocation
    signed_on,            \* the files sign_rpm_package was called on in this invocation
    sel_in,               \* SelSpec: the provider's release list
    sel_project,          \* SelSpec: the project fetched
    sel_kept,             \* SelSpec: versions_to_keep
    sel_out,              \* SelSpec: the list fetch_releases returns
    sel_pc                \* SelSpec: "input" or "done"

vars == <<disk, packages_dir_exists, manifest, repomd, repomd_asc, pubkey,
          repo_file, runs, pc, args, sign_packages, projects_to_process,
          preserved_packages, new_packages, proj_idx, releases, exit_status,
          ops, visited, failed, pre, downloaded, signed_on, sel_in,
          sel_project, sel_kept, sel_out, sel_pc>>

mainvars == <<disk, packages_dir_exists, manifest, repomd, repomd_asc, pubkey,
              repo_file, runs, pc, args, sign_packages, projects_to_process,
              preserved_packages, new_packages, proj_idx, releases,
              exit_status, ops, visited, failed, pre, downloaded, signed_on>>

selvars == <<sel_in, sel_project, sel_kept, sel_out, sel_pc>>

(***************************************************************************)
(* Bounds of the model.                                                    *)
(***************************************************************************)
MaxRuns == 2
MaxReleases == 3
MaxKeep == 2

(***************************************************************************)
(* Sequences.                                                              *)
(***************************************************************************)
Range(s) == {s[i] : i \in DOMAIN s}

RECURSIVE Flatten(_)
Flatten(ss) == IF ss = <<>> THEN <<>> ELSE Head(ss) \o Flatten(Tail(ss))

Min(a, b) == IF a <= b THEN a ELSE b

(***************************************************************************)
(* Text is a sequence of one-character strings; a filename is a sequence   *)
(* of name pieces, the pieces the patterns of the code look at.            *)
(***************************************************************************)
Digits == {"0", "1", "2", "3", "4", "5", "6", "7", "8", "9"}

DigitVal(c) ==
    CASE c = "0" -> 0 [] c = "1" -> 1 [] c = "2" -> 2 [] c = "3" -> 3
      [] c = "4" -> 4 [] c = "5" -> 5 [] c = "6" -> 6 [] c = "7" -> 7
      [] c = "8" -> 8 [] c = "9" -> 9

\* str.isdigit(): every character a digit, and at least one
IsDigit(x) == x # <<>> /\ \A i \in DOMAIN x : x[i] \in Digits

\* int(x) of a string of digits
RECURSIVE ToInt(_)
ToInt(x) ==
    IF x = <<>> THEN 0
    ELSE 10 * ToInt(SubSeq(x, 1, Len(x) - 1)) + DigitVal(x[Len(x)])

\* str.split("."): the pieces between the dots, empty pieces kept
RECURSIVE SplitDots(_)
SplitDots(s) ==
    IF \A i \in DOMAIN s : s[i] # "."
    THEN <<s>>
    ELSE LET k == CHOOSE i \in DOMAIN s :
                      s[i] = "." /\ \A j \in 1..(i - 1) : s[j] # "."
         IN <<SubSeq(s, 1, k - 1)>> \o SplitDots(SubSeq(s, k + 1, Len(s)))

\* tag.lstrip("vV")
RECURSIVE extract_version(_)
extract_version(tag) ==
    IF tag # <<>> /\ Head(tag) \in {"v", "V"}
    THEN extract_version(Tail(tag))
    ELSE tag

extract_major_minor(version) ==
    LET parts == SplitDots(version)
    IN IF Len(parts) >= 2 THEN parts[1] \o <<".">> \o parts[2] ELSE version

(***************************************************************************)
(* Architecture detection and asset matching.                              *)
(***************************************************************************)
ARCH_ORDER == <<"x86_64", "aarch64", "i686", "armv7hl", "noarch">>

ARCH_PATTERNS(arch) ==
    CASE arch = "x86_64"  -> {"x86_64", "amd64", "x64"}
      [] arch = "aarch64" -> {"aarch64", "arm64"}
      [] arch = "i686"    -> {"i686", "i386", "x86"}
      [] arch = "armv7hl" -> {"armv7hl", "armhf"}
      [] arch = "noarch"  -> {"noarch"}

\* the first architecture, in the order of ARCH_PATTERNS, one of whose
\* patterns is found in the filename; "none" for Python's None
detect_architecture(filename) ==
    LET hits == {i \in DOMAIN ARCH_ORDER :
                    Range(filename) \cap ARCH_PATTERNS(ARCH_ORDER[i]) # {}}
    IN IF hits = {} THEN "none"
       ELSE ARCH_ORDER[CHOOSE i \in hits : \A j \in hits : i <= j]

\* name.endswith(".rpm")
EndsWithRpm(name) == name # <<>> /\ name[Len(name)] = ".rpm"

\* ".src.rpm" in name or ".srpm" in name
IsSourceRpm(name) ==
    \/ \E i \in 1..(Len(name) - 1) : name[i] = ".src" /\ name[i + 1] = ".rpm"
    \/ ".srpm" \in Range(name)

\* re.search(project.asset_pattern, name): the pattern is one name piece
MatchesPattern(project, name) ==
    project.asset_pattern = "" \/ project.asset_pattern \in Range(name)

AssetMatches(name, project, architectures) ==
    /\ EndsWithRpm(name)
    /\ ~IsSourceRpm(name)
    /\ MatchesPattern(project, name)
    /\ detect_architecture(name) # "none"
    /\ detect_architecture(name) \in architectures

find_rpm_assets(release_data, project, architectures) ==
    LET kept == SelectSeq(release_data.assets,
                          LAMBDA n : AssetMatches(n, project, architectures))
    IN [i \in DOMAIN kept |->
           [name |-> kept[i], architecture |-> detect_architecture(kept[i])]]

(***************************************************************************)
(* fetch_releases: version buckets, their order, the window kept.          *)
(***************************************************************************)
\* the sort key of line 286: [int(x) if x.isdigit() else 0 for x in v.split(".")]
SortKey(v) ==
    LET parts == SplitDots(v)
    IN [i \in DOMAIN parts |-> IF IsDigit(parts[i]) THEN ToInt(parts[i]) ELSE 0]

\* Python's order of two lists of integers
KeyLess(a, b) ==
    \/ \E i \in 1..Min(Len(a), Len(b)) :
          /\ \A j \in 1..(i - 1) : a[j] = b[j]
          /\ a[i] < b[i]
    \/ /\ Len(a) < Len(b)
       /\ \A j \in 1..Len(a) : a[j] = b[j]

\* the code of a character in the order Python compares strings by
CharCode(c) ==
    IF c \in Digits THEN 48 + DigitVal(c)
    ELSE IF c = "." THEN 46
    ELSE IF c = "-" THEN 45
    ELSE 120

\* faulty variant of VersionLess: the bucket keys compared as text
VersionLessAsText(v, w) ==
    KeyLess([i \in DOMAIN v |-> CharCode(v[i])],
            [i \in DOMAIN w |-> CharCode(w[i])])

\* the order sorted() compares bucket keys by
VersionLess(v, w) == KeyLess(SortKey(v), SortKey(w))

\* x put into a list that is sorted newest first, behind the entries that
\* are not older than it (sorted(reverse=True) keeps equal keys in order)
InsertDesc(r, x) ==
    LET older == {i \in DOMAIN r : VersionLess(r[i], x)}
        k == IF older = {} THEN Len(r) + 1
             ELSE CHOOSE i \in older : \A j \in older : i <= j
    IN SubSeq(r, 1, k - 1) \o <<x>> \o SubSeq(r, k, Len(r))

RECURSIVE SortDesc(_)
SortDesc(keys) ==
    IF keys = <<>> THEN <<>>
    ELSE InsertDesc(SortDesc(SubSeq(keys, 1, Len(keys) - 1)), keys[Len(keys)])

Eligible(release_data) == ~release_data.prerelease /\ ~release_data.draft

BucketOf(release_data) ==
    extract_major_minor(extract_version(release_data.tag_name))

\* the keys of releases_by_minor, in the order the loop inserted them
RECURSIVE BucketKeys(_)
BucketKeys(releases_data) ==
    IF releases_data = <<>> THEN <<>>
    ELSE LET before == BucketKeys(SubSeq(releases_data, 1, Len(releases_data) - 1))
             last == releases_data[Len(releases_data)]
         IN IF Eligible(last) /\ BucketOf(last) \notin Range(before)
            THEN Append(before, BucketOf(last))
            ELSE before

\* releases_by_minor[major_minor]: the first eligible release of the bucket
BucketRelease(releases_data, major_minor) ==
    releases_data[CHOOSE i \in DOMAIN releases_data :
        /\ Eligible(releases_data[i])
        /\ BucketOf(releases_data[i]) = major_minor
        /\ \A j \in 1..(i - 1) :
              ~(Eligible(releases_data[j])
                /\ BucketOf(releases_data[j]) = major_minor)]

sorted_versions(releases_data) == SortDesc(BucketKeys(releases_data))

\* lines 291-294
KeepCount(keep_versions) == IF keep_versions > 0 THEN keep_versions + 1 ELSE 1

versions_to_keep(releases_data, project) ==
    LET sv == sorted_versions(releases_data)
    IN SubSeq(sv, 1, Min(Len(sv), KeepCount(project.keep_versions)))

\* the RpmPackage of line 313; size and sha256 are set when it is processed
NewPackage(project, version, asset) ==
    [name |-> project.name, version |-> version,
     architecture |-> asset.architecture, filename |-> asset.name,
     project_repo |-> project.repo, size |-> 0, sha256 |-> ""]

\* the Release of line 306, or <<>> when the release has no matching asset
ReleaseOf(release_data, major_minor, project, architectures) ==
    LET rpm_assets == find_rpm_assets(release_data, project, architectures)
        version == extract_version(release_data.tag_name)
    IN IF rpm_assets = <<>> THEN <<>>
       ELSE <<[tag |-> release_data.tag_name, version |-> version,
               major_minor |-> major_minor,
               packages |-> [i \in DOMAIN rpm_assets |->
                                NewPackage(project, version, rpm_assets[i])]]>>

fetch_releases(releases_data, project, architectures) ==
    LET keep == versions_to_keep(releases_data, project)
    IN Flatten([i \in DOMAIN keep |->
                   ReleaseOf(BucketRelease(releases_data, keep[i]), keep[i],
                             project, architectures)])

(***************************************************************************)
(* The configuration (projects.yaml) and what the provider may answer.     *)
(***************************************************************************)
\* RepoSettings.architectures, line 89
architectures == {"x86_64", "aarch64"}

ProjA == [repo |-> "o/a", name |-> "a", keep_versions |-> 1, asset_pattern |-> ""]
ProjB == [repo |-> "o/b", name |-> "b", keep_versions |-> 0, asset_pattern |-> ""]

all_projects == <<ProjA, ProjB>>

\* asset names; two projects may attach an asset of the same name
FileX == <<"pkg", "x86_64", ".rpm">>
FileY == <<"pkg", "arm64", ".rpm">>
FileSrc == <<"pkg", "x86_64", ".src", ".rpm">>
FileDeb == <<"pkg", "amd64", ".deb">>

\* the filenames that can come to lie in the packages directory
FileNames == {FileX, FileY}

Tag10 == <<"v", "1", ".", "0", ".", "0">>
Tag11 == <<"v", "1", ".", "1", ".", "0">>
Tag20rc == <<"v", "2", ".", "0", "-", "r", "c">>

ReleaseData(tag, is_pre, is_draft, assets) ==
    [tag_name |-> tag, prerelease |-> is_pre, draft |-> is_draft,
     assets |-> assets]

\* release lists github.get_releases may return, newest first: o/a has
\* published two minor lines, o/b one release
ProviderCatalog(repo) ==
    IF repo = "o/a"
    THEN { <<>>,
           <<ReleaseData(Tag11, FALSE, FALSE, <<FileX, FileY, FileDeb>>)>>,
           <<ReleaseData(Tag11, FALSE, FALSE, <<FileY>>),
             ReleaseData(Tag10, FALSE, FALSE, <<FileX>>)>>,
           <<ReleaseData(Tag20rc, TRUE, FALSE, <<FileX>>),
             ReleaseData(Tag11, FALSE, TRUE, <<FileX>>),
             ReleaseData(Tag10, FALSE, FALSE, <<FileSrc>>)>> }
    ELSE { <<>>,
           <<ReleaseData(Tag11, FALSE, FALSE, <<FileX>>),
             ReleaseData(Tag10, FALSE, FALSE, <<FileY>>)>> }

\* HTTP 404 and 403 (RuntimeError), any other HTTPError, URLError, timeout
ProviderErrors == {"404", "403", "network", "timeout"}

\* the command lines; project "" stands for no --project (or an empty one,
\* which `if args.project` takes for none), gpg_key "" for no --gpg-key
Args ==
    [project : {"", "a", "o/b", "nope"}, list : BOOLEAN, dry_run : BOOLEAN,
     gpg_key : {"", "K"}, no_sign : BOOLEAN]

NoArgs ==
    [project |-> "", list |-> FALSE, dry_run |-> FALSE, gpg_key |-> "",
     no_sign |-> FALSE]

(***************************************************************************)
(* Files.                                                                  *)
(***************************************************************************)
\* "full" a complete download, "partial" one cut short, "signed" a
\* complete download rpm --addsign has rewritten
Contents == {"full", "partial", "signed"}

compute_sha256(content) ==
    CASE content = "full" -> "sha-full"
      [] content = "partial" -> "sha-partial"
      [] content = "signed" -> "sha-signed"

\* rpm_path.stat().st_size, in units that tell the three contents apart
FileSize(content) ==
    CASE content = "full" -> 2
      [] content = "partial" -> 1
      [] content = "signed" -> 3

OnDisk(d) == {f \in DOMAIN d : d[f] # "absent"}

Filenames(packages) == {packages[i].filename : i \in DOMAIN packages}

\* everything an invocation can change in the output directory
Output ==
    [disk |-> disk, packages_dir_exists |-> packages_dir_exists,
     manifest |-> manifest, repomd |-> repomd, repomd_asc |-> repomd_asc,
     pubkey |-> pubkey, repo_file |-> repo_file]

(***************************************************************************)
(* The pieces of main().                                                   *)
(***************************************************************************)
\* faulty variant of ProjectsToProcess: a filter that matches nothing selects all
ProjectsToProcessOrAll(project_arg) ==
    LET named == SelectSeq(all_projects,
                           LAMBDA p : p.name = project_arg \/ p.repo = project_arg)
    IN IF project_arg # "" /\ named # <<>> THEN named ELSE all_projects

\* lines 591-600
ProjectsToProcess(project_arg) ==
    IF project_arg # ""
    THEN SelectSeq(all_projects,
                   LAMBDA p : p.name = project_arg \/ p.repo = project_arg)
    ELSE all_projects

\* lines 331-337 and 610-612
load_manifest == IF manifest.exists THEN manifest.packages ELSE <<>>

\* line 615
projects_to_update(projects) == {projects[i].repo : i \in DOMAIN projects}

\* faulty variant of PreservedPackages: the test of line 618 inverted
PreservedPackagesInverted(existing_packages, projects) ==
    SelectSeq(existing_packages,
              LAMBDA pkg : pkg.project_repo \in projects_to_update(projects))

\* lines 616-619
PreservedPackages(existing_packages, projects) ==
    SelectSeq(existing_packages,
              LAMBDA pkg : pkg.project_repo \notin projects_to_update(projects))

\* faulty variant of MkdirPackages: the directory is made in a dry run too
MkdirPackagesAlways(dry_run, exists) == TRUE

\* lines 621-622
MkdirPackages(dry_run, exists) == IF ~dry_run THEN TRUE ELSE exists

\* line 663
ShouldSign(sp, gpg_key, needs_signing) == sp /\ gpg_key # "" /\ needs_signing

\* faulty variant of ExceptContinue: the except clause leaves the loop
ExceptBreak(i) == Len(projects_to_process) + 1

\* line 686: the except clause goes on with the next project
ExceptContinue(i) == i + 1

\* faulty variant of cleanup_old_packages: the path, not the name, is looked up in
\* current_filenames, so no file is found there
cleanup_by_path(d, all_packages) == [f \in DOMAIN d |-> "absent"]

\* lines 519-533
cleanup_old_packages(d, all_packages) ==
    [f \in DOMAIN d |->
        IF d[f] # "absent" /\ f \notin Filenames(all_packages)
        THEN "absent" ELSE d[f]]

\* lines 340-348; the timestamp is the number of the invocation
save_manifest(packages, now) ==
    [exists |-> TRUE, packages |-> packages, updated |-> now]

\* no .repo file written yet
NoRepoFile ==
    [exists |-> FALSE, gpgcheck |-> 0, repo_gpgcheck |-> FALSE, gpgkey |-> FALSE]

\* line 730
DescriptorKey(a) == IF ~a.no_sign THEN a.gpg_key ELSE ""

\* lines 469-481: the gpg stanza of the .repo file
generate_repo_file(gpg_key, sp) ==
    IF gpg_key # ""
    THEN IF sp
         THEN [exists |-> TRUE, gpgcheck |-> 1, repo_gpgcheck |-> TRUE,
               gpgkey |-> TRUE]
         ELSE [exists |-> TRUE, gpgcheck |-> 0, repo_gpgcheck |-> TRUE,
               gpgkey |-> TRUE]
    ELSE [exists |-> TRUE, gpgcheck |-> 0, repo_gpgcheck |-> FALSE,
          gpgkey |-> FALSE]

(***************************************************************************)
(* Spec: the invocations of main().                                        *)
(***************************************************************************)
SelIdle ==
    /\ sel_in = <<>>
    /\ sel_project = ProjA
    /\ sel_kept = <<>>
    /\ sel_out = <<>>
    /\ sel_pc = "idle"

\* an empty output directory, no invocation yet
MainInit ==
    /\ disk = [f \in FileNames |-> "absent"]
    /\ packages_dir_exists = FALSE
    /\ manifest = [exists |-> FALSE, packages |-> <<>>, updated |-> 0]
    /\ repomd = [exists |-> FALSE, files |-> {}]
    /\ repomd_asc = FALSE
    /\ pubkey = FALSE
    /\ repo_file = NoRepoFile
    /\ runs = 0
    /\ pc = "idle"
    /\ args = NoArgs
    /\ sign_packages \in BOOLEAN
    /\ projects_to_process = <<>>
    /\ preserved_packages = <<>>
    /\ new_packages = <<>>
    /\ proj_idx = 1
    /\ releases = <<>>
    /\ exit_status = -1
    /\ ops = {}
    /\ visited = {}
    /\ failed = {}
    /\ pre = [disk |-> [f \in FileNames |-> "absent"],
              packages_dir_exists |-> FALSE,
              manifest |-> [exists |-> FALSE, packages |-> <<>>, updated |-> 0],
              repomd |-> [exists |-> FALSE, files |-> {}],
              repomd_asc |-> FALSE, pubkey |-> FALSE, repo_file |-> NoRepoFile]
    /\ downloaded = {}
    /\ signed_on = {}

Init == MainInit /\ SelIdle

\* what every invocation starts from: lines 578-581
Invoke(a) ==
    /\ pc = "idle"
    /\ runs < MaxRuns
    /\ runs' = runs + 1
    /\ args' = a
    /\ pre' = Output
    /\ visited' = {}
    /\ failed' = {}
    /\ new_packages' = <<>>
    /\ releases' = <<>>
    /\ proj_idx' = 1
    /\ downloaded' = {}
    /\ signed_on' = {}
    /\ UNCHANGED <<sign_packages, selvars>>

\* the end of the project loop: lines 688-690
LoopEnd(a) == IF a.dry_run THEN "done" ELSE "reconcile"

\* the loop of line 631 moves to project i, or past the last one
GoToProject(i) ==
    /\ proj_idx' = i
    /\ pc' = IF i <= Len(projects_to_process) THEN "fetch" ELSE LoopEnd(args)
    /\ exit_status' = IF i > Len(projects_to_process) /\ args.dry_run
                      THEN 0 ELSE exit_status

\* --list: lines 584-588
ListProjects(a) ==
    /\ a.list
    /\ Invoke(a)
    /\ pc' = "done"
    /\ exit_status' = 0
    /\ ops' = {}
    /\ projects_to_process' = <<>>
    /\ preserved_packages' = <<>>
    /\ UNCHANGED <<disk, packages_dir_exists, manifest, repomd, repomd_asc,
                   pubkey, repo_file>>

\* --project names no configured project: lines 596-598
ProjectNotFound(a) ==
    /\ ~a.list
    /\ ProjectsToProcess(a.project) = <<>>
    /\ Invoke(a)
    /\ pc' = "done"
    /\ exit_status' = 1
    /\ ops' = {}
    /\ projects_to_process' = <<>>
    /\ preserved_packages' = <<>>
    /\ UNCHANGED <<disk, packages_dir_exists, manifest, repomd, repomd_asc,
                   pubkey, repo_file>>

\* lines 590-629: the projects, the manifest, the packages directory
BeginRun(a) ==
    /\ ~a.list
    /\ ProjectsToProcess(a.project) # <<>>
    /\ Invoke(a)
    /\ projects_to_process' = ProjectsToProcess(a.project)
    /\ preserved_packages' =
           PreservedPackages(load_manifest, ProjectsToProcess(a.project))
    /\ packages_dir_exists' = MkdirPackages(a.dry_run, packages_dir_exists)
    /\ ops' = {"load_manifest"} \cup (IF ~a.dry_run THEN {"mkdir"} ELSE {})
    /\ pc' = "fetch"
    /\ exit_status' = -1
    /\ UNCHANGED <<disk, manifest, repomd, repomd_asc, pubkey, repo_file>>

CurrentProject == projects_to_process[proj_idx]

\* line 637, the provider answering
FetchReleases ==
    /\ pc = "fetch"
    /\ visited' = visited \cup {CurrentProject.repo}
    /\ ops' = ops \cup {"provider"}
    /\ \E releases_data \in ProviderCatalog(CurrentProject.repo) :
          LET found == fetch_releases(releases_data, CurrentProject, architectures)
          IN IF found = <<>>
             THEN /\ releases' = <<>>
                  /\ GoToProject(proj_idx + 1)
             ELSE /\ releases' = found
                  /\ pc' = "pkg"
                  /\ UNCHANGED <<proj_idx, exit_status>>
    /\ UNCHANGED <<disk, packages_dir_exists, manifest, repomd, repomd_asc,
                   pubkey, repo_file, runs, args, sign_packages,
                   projects_to_process, preserved_packages, new_packages,
                   failed, pre, downloaded,
                   signed_on, selvars>>

\* line 637, the provider failing: lines 101-122, caught at line 684
FetchFails ==
    /\ pc = "fetch"
    /\ \E err \in ProviderErrors :
          /\ visited' = visited \cup {CurrentProject.repo}
          /\ failed' = failed \cup {<<CurrentProject.repo, "provider">>}
          /\ ops' = ops \cup {"provider"}
    /\ releases' = <<>>
    /\ GoToProject(ExceptContinue(proj_idx))
    /\ UNCHANGED <<disk, packages_dir_exists, manifest, repomd, repomd_asc,
                   pubkey, repo_file, runs, args, sign_packages,
                   projects_to_process, preserved_packages, new_packages, pre, downloaded,
                   signed_on, selvars>>

\* the package the loops of lines 643 and 646 are at, and what follows it
CurrentPackage == Head(releases).packages[1]

RestOfReleases ==
    IF Len(Head(releases).packages) > 1
    THEN <<[Head(releases) EXCEPT !.packages = Tail(@)]>> \o Tail(releases)
    ELSE Tail(releases)

\* the loops move on to the next package, release or project
NextPackage ==
    /\ releases' = RestOfReleases
    /\ IF RestOfReleases = <<>>
       THEN GoToProject(proj_idx + 1)
       ELSE /\ pc' = "pkg"
            /\ UNCHANGED <<proj_idx, exit_status>>

\* lines 649-650
PackageDryRun ==
    /\ pc = "pkg"
    /\ args.dry_run
    /\ NextPackage
    /\ UNCHANGED <<disk, packages_dir_exists, manifest, repomd, repomd_asc,
                   pubkey, repo_file, runs, args, sign_packages,
                   projects_to_process, preserved_packages, new_packages,
                   ops, visited, failed, pre, downloaded,
                   signed_on, selvars>>

\* lines 652-682: download unless present, sign, hash, record
PackageProcessed ==
    /\ pc = "pkg"
    /\ ~args.dry_run
    /\ LET f == CurrentPackage.filename
           needs_signing == disk[f] = "absent"
           fetched == IF needs_signing THEN "full" ELSE disk[f]
           signs == ShouldSign(sign_packages, args.gpg_key, needs_signing)
       IN \E sign_ok \in BOOLEAN :
             LET content == IF signs /\ sign_ok THEN "signed" ELSE fetched
             IN /\ disk' = [disk EXCEPT ![f] = content]
                /\ new_packages' =
                       Append(new_packages,
                              [CurrentPackage EXCEPT
                                  !.sha256 = compute_sha256(content),
                                  !.size = FileSize(content)])
                /\ ops' = ops \cup (IF needs_signing THEN {"download"} ELSE {})
                              \cup (IF signs THEN {"sign_rpm"} ELSE {})
                /\ downloaded' =
                       downloaded \cup (IF needs_signing THEN {f} ELSE {})
                /\ signed_on' = signed_on \cup (IF signs THEN {f} ELSE {})
    /\ NextPackage
    /\ UNCHANGED <<packages_dir_exists, manifest, repomd, repomd_asc, pubkey,
                   repo_file, runs, args, sign_packages, projects_to_process,
                   preserved_packages, visited, failed, pre, selvars>>

\* line 657 raising: urlopen fails and no file is made, or copyfileobj
\* fails and the file opened at line 177 stays as far as it was written;
\* caught at line 684
PackageDownloadFails ==
    /\ pc = "pkg"
    /\ ~args.dry_run
    /\ disk[CurrentPackage.filename] = "absent"
    /\ \E left \in {"absent", "partial"} :
          disk' = [disk EXCEPT ![CurrentPackage.filename] = left]
    /\ ops' = ops \cup {"download"}
    /\ failed' = failed \cup {<<CurrentProject.repo, "download">>}
    /\ releases' = <<>>
    /\ GoToProject(ExceptContinue(proj_idx))
    /\ UNCHANGED <<packages_dir_exists, manifest, repomd, repomd_asc, pubkey,
                   repo_file, runs, args, sign_packages, projects_to_process,
                   preserved_packages, new_packages, visited, pre, downloaded,
                   signed_on, selvars>>

\* lines 692-701
Reconcile ==
    /\ pc = "reconcile"
    /\ LET all_packages == preserved_packages \o new_packages
       IN /\ disk' = cleanup_old_packages(disk, all_packages)
          /\ manifest' = save_manifest(all_packages, runs)
          /\ ops' = ops \cup {"save_manifest"}
                        \cup (IF cleanup_old_packages(disk, all_packages) # disk
                              THEN {"unlink"} ELSE {})
    /\ pc' = "publish"
    /\ UNCHANGED <<packages_dir_exists, repomd, repomd_asc, pubkey, repo_file,
                   runs, args, sign_packages, projects_to_process,
                   preserved_packages, new_packages, proj_idx, releases,
                   exit_status, visited, failed, pre, downloaded,
                   signed_on, selvars>>

\* lines 351-378: createrepo --update rewrites repomd.xml, or fails
run_createrepo(ok) ==
    IF ok THEN [exists |-> TRUE, files |-> OnDisk(disk)] ELSE repomd

\* line 714
SignsRepository(a, repodata_exists) == ~a.no_sign /\ repodata_exists

\* lines 703-736: the indexer, the signature of the index, the public key,
\* the descriptor; main returns None and line 740 exits with 0
Publish ==
    /\ pc = "publish"
    /\ \E createrepo_ok \in BOOLEAN, gpg_ok \in BOOLEAN, export_ok \in BOOLEAN :
          LET index == run_createrepo(createrepo_ok)
              signs == SignsRepository(args, index.exists)
              signed == signs /\ gpg_ok
              exported == signed /\ export_ok
          IN /\ repomd' = index
             /\ repomd_asc' = (repomd_asc \/ signed)
             /\ pubkey' = (pubkey \/ exported)
             /\ ops' = ops \cup {"createrepo", "generate_repo_file"}
                           \cup (IF signs THEN {"sign_repository"} ELSE {})
                           \cup (IF signed
                                 THEN {"repomd_signed", "export_public_key"}
                                 ELSE {})
                           \cup (IF exported THEN {"key_exported"} ELSE {})
    /\ repo_file' = generate_repo_file(DescriptorKey(args), sign_packages)
    /\ pc' = "done"
    /\ exit_status' = 0
    /\ UNCHANGED <<disk, packages_dir_exists, manifest, runs, args,
                   sign_packages, projects_to_process, preserved_packages,
                   new_packages, proj_idx, releases, visited, failed, pre,
                   downloaded, signed_on, selvars>>

\* line 740: the process ends, and only the output directory is left
Exit ==
    /\ pc = "done"
    /\ pc' = "idle"
    /\ args' = NoArgs
    /\ projects_to_process' = <<>>
    /\ preserved_packages' = <<>>
    /\ new_packages' = <<>>
    /\ proj_idx' = 1
    /\ releases' = <<>>
    /\ exit_status' = -1
    /\ ops' = {}
    /\ visited' = {}
    /\ failed' = {}
    /\ pre' = Output
    /\ downloaded' = {}
    /\ signed_on' = {}
    /\ UNCHANGED <<disk, packages_dir_exists, manifest, repomd, repomd_asc,
                   pubkey, repo_file, runs, sign_packages, selvars>>

Next ==
    \/ \E a \in Args : ListProjects(a)
    \/ \E a \in Args : ProjectNotFound(a)
    \/ \E a \in Args : BeginRun(a)
    \/ FetchReleases
    \/ FetchFails
    \/ PackageDryRun
    \/ PackageProcessed
    \/ PackageDownloadFails
    \/ Reconcile
    \/ Publish
    \/ Exit

Spec == Init /\ [][Next]_vars

(***************************************************************************)
(* SelSpec: fetch_releases on the release lists of one repository.         *)
(***************************************************************************)
SelTags ==
    { <<"v", "1", ".", "9", ".", "0">>,
      <<"v", "1", ".", "1", "0", ".", "0">>,
      <<"V", "1", ".", "1", "0", ".", "1">>,
      <<"v", "2", ".", "0", ".", "1">>,
      <<"v", "2">>,
      <<"1", ".", "x">> }

\* a release of the repository: published with a matching asset, published
\* with a source package only, a pre-release, a draft
SelReleases ==
    {ReleaseData(t, FALSE, FALSE, <<FileX>>) : t \in SelTags}
        \cup {ReleaseData(t, FALSE, FALSE, <<FileSrc>>) : t \in SelTags}
        \cup {ReleaseData(t, TRUE, FALSE, <<FileX>>) : t \in SelTags}
        \cup {ReleaseData(t, FALSE, TRUE, <<FileX>>) : t \in SelTags}

\* the release lists of at most MaxReleases releases; a repository has no
\* two releases of one tag
SelReleaseLists ==
    UNION {{l \in [1..n -> SelReleases] :
               \A i \in 1..n, j \in 1..n :
                   i # j => l[i].tag_name # l[j].tag_name} : n \in 0..MaxReleases}

SelProject(keep_versions) ==
    [repo |-> "o/s", name |-> "s", keep_versions |-> keep_versions,
     asset_pattern |-> ""]

SelInit ==
    /\ MainInit
    /\ sign_packages = TRUE
    /\ sel_in \in SelReleaseLists
    /\ sel_project \in {SelProject(k) : k \in 0..MaxKeep}
    /\ sel_kept = <<>>
    /\ sel_out = <<>>
    /\ sel_pc = "input"

\* lines 250-328, given what github.get_releases returned
FetchReleasesOf ==
    /\ sel_pc = "input"
    /\ sel_kept' = versions_to_keep(sel_in, sel_project)
    /\ sel_out' = fetch_releases(sel_in, sel_project, architectures)
    /\ sel_pc' = "done"
    /\ UNCHANGED <<sel_in, sel_project, mainvars>>

SelNext == FetchReleasesOf

SelSpec == SelInit /\ [][SelNext]_vars

(***************************************************************************)
(* The claims.                                                             *)
(***************************************************************************)
\* an invocation that ran to the end of main() and was no dry run
Completed == pc = "done" /\ "save_manifest" \in ops

\* the calls that change the output directory or run an external tool on it
SideEffects ==
    {"mkdir", "download", "sign_rpm", "unlink", "save_manifest", "createrepo",
     "sign_repository", "repomd_signed", "export_public_key", "key_exported",
     "generate_repo_file"}

Updated == projects_to_update(projects_to_process)

OwnedBy(packages, repos) ==
    SelectSeq(packages, LAMBDA pkg : pkg.project_repo \in repos)

NotOwnedBy(packages, repos) ==
    SelectSeq(packages, LAMBDA pkg : pkg.project_repo \notin repos)

\* C1: after every completed invocation that is no dry run, the filenames
\* in the packages directory are the filenames of the manifest's records
C1_FilesMatchManifest ==
    Completed => OnDisk(disk) = Filenames(manifest.packages)

\* a second invocation, with a failed download, that deleted files and
\* left a manifest with records
C1_Witness ==
    /\ Completed
    /\ runs = 2
    /\ \E repo \in Updated : <<repo, "download">> \in failed
    /\ "unlink" \in ops
    /\ manifest.packages # <<>>

\* C2: from the start of an invocation to its end, the file of every
\* manifest record of a project that is not updated is there with the
\* content it had, and the manifest written holds these records unchanged
C2_OthersPreserved ==
    (pc \notin {"idle"} /\ projects_to_process # <<>>) =>
        /\ \A i \in DOMAIN pre.manifest.packages :
              LET r == pre.manifest.packages[i]
              IN r.project_repo \notin Updated =>
                    /\ disk[r.filename] # "absent"
                    /\ disk[r.filename] = pre.disk[r.filename]
        /\ Completed =>
              NotOwnedBy(manifest.packages, Updated)
                  = NotOwnedBy(pre.manifest.packages, Updated)

\* only o/a is updated and fails, o/b has records in the manifest
C2_Witness ==
    /\ Completed
    /\ Updated = {"o/a"}
    /\ failed # {}
    /\ OwnedBy(pre.manifest.packages, {"o/a"}) # <<>>
    /\ OwnedBy(manifest.packages, {"o/b"}) # <<>>

\* C3: an invocation that updates only o/a and fetches no package, with
\* records of o/a and o/b in the manifest, leaves the records of o/b as
\* the manifest and none of the files of o/a's records
C3_Claim ==
    ( /\ Completed
      /\ Updated = {"o/a"}
      /\ new_packages = <<>>
      /\ OwnedBy(pre.manifest.packages, {"o/a"}) # <<>>
      /\ OwnedBy(pre.manifest.packages, {"o/b"}) # <<>> ) =>
        /\ manifest.packages = OwnedBy(pre.manifest.packages, {"o/b"})
        /\ \A f \in Filenames(OwnedBy(pre.manifest.packages, {"o/a"})) :
              disk[f] = "absent"

\* C4: a package whose download or signing fails is not recorded, and the
\* packages and releases of the project that follow it are still processed
C4_Claim ==
    [][(pc = "pkg" /\ ~args.dry_run) =>
          /\ releases' = RestOfReleases
          /\ ( /\ disk[CurrentPackage.filename] = "absent"
               /\ ShouldSign(sign_packages, args.gpg_key, TRUE)
               /\ disk'[CurrentPackage.filename] # "signed" ) =>
                 new_packages' = new_packages]_vars

\* C5: at the end of an invocation no record of the manifest names a file
\* whose content is a partial download
C5_Claim ==
    pc = "done" =>
        \A i \in DOMAIN manifest.packages :
            disk[manifest.packages[i].filename] # "partial"

\* C6: an invocation in which the provider failed for a project still
\* enters the loop body of every project, exits with status 0 and, unless
\* it is a dry run, rewrites the manifest and runs the publication
C6_ProviderFailureSkipsProject ==
    (pc = "done" /\ \E repo \in Updated : <<repo, "provider">> \in failed) =>
        /\ visited = Updated
        /\ exit_status = 0
        /\ ~args.dry_run =>
              /\ {"save_manifest", "createrepo", "generate_repo_file"} \subseteq ops
              /\ manifest.exists
              /\ manifest.updated = runs
              /\ repo_file.exists

\* the provider failed for o/a, and o/b, next in the order, was fetched
C6_Witness ==
    /\ Completed
    /\ <<"o/a", "provider">> \in failed
    /\ Updated = {"o/a", "o/b"}
    /\ OwnedBy(new_packages, {"o/b"}) # <<>>

\* C7: in a dry run the output directory stays as it was found and none of
\* the calls that change it, or run a tool on it, is made
C7_DryRunTouchesNothing ==
    (pc # "idle" /\ args.dry_run) =>
        /\ Output = pre
        /\ ops \cap SideEffects = {}

\* a dry run over a directory with a manifest lists a package
C7_Witness ==
    /\ args.dry_run
    /\ pc = "pkg"
    /\ manifest.packages # <<>>

\* C8: an invocation whose --project names no configured project, by name
\* or by repo, exits with a status that is not 0, without a call that reads
\* the manifest, asks the provider or changes the output directory
C8_UnknownProjectAborts ==
    ( /\ pc = "done"
      /\ ~args.list
      /\ args.project # ""
      /\ \A i \in DOMAIN all_projects :
            /\ all_projects[i].name # args.project
            /\ all_projects[i].repo # args.project ) =>
        /\ exit_status > 0
        /\ ops = {}
        /\ visited = {}
        /\ Output = pre

\* --project nope, over a directory a previous invocation has filled
C8_Witness ==
    /\ pc = "done"
    /\ ~args.list
    /\ args.project = "nope"
    /\ exit_status = 1
    /\ manifest.packages # <<>>

\* the numbers of a bucket key's components, a component that is no
\* number counting as 0
C9_Numbers(v) ==
    LET parts == SplitDots(v)
    IN [i \in DOMAIN parts |-> IF IsDigit(parts[i]) THEN ToInt(parts[i]) ELSE 0]

\* a ranks above b, component by component
RECURSIVE C9_Above(_, _)
C9_Above(a, b) ==
    IF a = <<>> THEN FALSE
    ELSE IF b = <<>> THEN TRUE
    ELSE IF Head(a) # Head(b) THEN Head(a) > Head(b)
    ELSE C9_Above(Tail(a), Tail(b))

C9_Buckets == {BucketOf(sel_in[i]) : i \in {j \in DOMAIN sel_in : Eligible(sel_in[j])}}

C9_Window ==
    IF sel_project.keep_versions > 0 THEN sel_project.keep_versions + 1 ELSE 1

\* the newest release of a bucket: the first of the provider's list
C9_ReleaseOf(b) ==
    sel_in[CHOOSE i \in DOMAIN sel_in :
        /\ Eligible(sel_in[i]) /\ BucketOf(sel_in[i]) = b
        /\ \A j \in DOMAIN sel_in :
              (Eligible(sel_in[j]) /\ BucketOf(sel_in[j]) = b) => i <= j]

C9_HasPackage(b) ==
    \E i \in DOMAIN C9_ReleaseOf(b).assets :
        AssetMatches(C9_ReleaseOf(b).assets[i], sel_project, architectures)

\* C9, amended: the buckets kept are the first keepVersions+1 (1 when
\* keepVersions is 0) of the buckets ordered newest first by the numbers of
\* their components, and the releases returned are, in that order, those of
\* the kept buckets that have a matching asset: at most 1 for keepVersions
\* 0, at most keepVersions+1 otherwise
C9_SelectsNewestBuckets ==
    (sel_pc = "done" /\ C9_Buckets # {}) =>
        /\ Len(sel_kept) = Min(Cardinality(C9_Buckets), C9_Window)
        /\ Range(sel_kept) \subseteq C9_Buckets
        /\ \A i \in DOMAIN sel_kept, j \in DOMAIN sel_kept :
              i < j => /\ sel_kept[i] # sel_kept[j]
                       /\ ~C9_Above(C9_Numbers(sel_kept[j]),
                                    C9_Numbers(sel_kept[i]))
        /\ \A b \in C9_Buckets \ Range(sel_kept), i \in DOMAIN sel_kept :
              ~C9_Above(C9_Numbers(b), C9_Numbers(sel_kept[i]))
        /\ [i \in DOMAIN sel_out |-> sel_out[i].major_minor]
              = SelectSeq(sel_kept, C9_HasPackage)
        /\ \A i \in DOMAIN sel_out :
              sel_out[i].tag = C9_ReleaseOf(sel_out[i].major_minor).tag_name
        /\ Len(sel_out) <= C9_Window
        /\ sel_project.keep_versions = 0 => Len(sel_out) <= 1

\* buckets 1.9, 1.10 and 2.0 and keep_versions 1: 2.0 and 1.10 are kept
C9_Witness ==
    /\ sel_pc = "done"
    /\ sel_project.keep_versions = 1
    /\ C9_Buckets = {<<"1", ".", "9">>, <<"1", ".", "1", "0">>, <<"2", ".", "0">>}
    /\ sel_kept = <<<<"2", ".", "0">>, <<"1", ".", "1", "0">>>>
    /\ Len(sel_out) = 2

\* C9 as claimed: with keepVersions 0 and at least one bucket, exactly one
\* release is returned
C9_Claim ==
    (sel_pc = "done" /\ C9_Buckets # {} /\ sel_project.keep_versions = 0) =>
        Len(sel_out) = 1

\* C10: under --no-sign no package is signed, the index is not signed, no
\* key is exported, and the descriptor has gpgcheck=0 and no repo_gpgcheck
C10_Claim ==
    (pc # "idle" /\ args.no_sign) =>
        /\ ops \cap {"sign_rpm", "sign_repository", "repomd_signed",
                     "export_public_key", "key_exported"} = {}
        /\ "generate_repo_file" \in ops =>
              /\ repo_file.gpgcheck = 0
              /\ ~repo_file.repo_gpgcheck

\* C11: no two records of the manifest written by an invocation have the
\* same filename
C11_Claim ==
    Completed =>
        \A i, j \in DOMAIN manifest.packages :
            manifest.packages[i].filename = manifest.packages[j].filename
                => i = j

\* what "signing is enabled" means on the command line and in the settings:
\* a key is given, packages are to be signed, and --no-sign is not given
SigningEnabled == sign_packages /\ args.gpg_key # "" /\ ~args.no_sign

\* C12: in an invocation the package signer is called on a file only if
\* signing is enabled and the file was downloaded in this invocation, and
\* at the end the sha256 and size of each new record are those of its file
\* as it then is on disk
C12_Claim ==
    /\ signed_on # {} => SigningEnabled
    /\ signed_on \subseteq downloaded
    /\ \A f \in signed_on : pre.disk[f] = "absent"
    /\ pc \in {"reconcile", "publish", "done"} =>
          \A i \in DOMAIN new_packages :
              /\ new_packages[i].sha256 =
                     compute_sha256(disk[new_packages[i].filename])
              /\ new_packages[i].size = FileSize(disk[new_packages[i].filename])

\* the part of C12 that is not about --no-sign: the signer is called only
\* with a key given and sign_packages set, only on files downloaded in this
\* invocation, and the recorded digests are those of the files at the end
C12_ApartFromNoSign ==
    /\ signed_on # {} => (sign_packages /\ args.gpg_key # "")
    /\ signed_on \subseteq downloaded
    /\ \A f \in signed_on : pre.disk[f] = "absent"
    /\ pc \in {"reconcile", "publish", "done"} =>
          \A i \in DOMAIN new_packages :
              /\ new_packages[i].sha256 =
                     compute_sha256(disk[new_packages[i].filename])
              /\ new_packages[i].size = FileSize(disk[new_packages[i].filename])

\* C13: the descriptor written by an invocation has repo_gpgcheck=1 and a
\* gpgkey line only if this invocation signed repomd.xml and exported the
\* public key
C13_Claim ==
    (pc = "done" /\ "generate_repo_file" \in ops
                 /\ (repo_file.repo_gpgcheck \/ repo_file.gpgkey)) =>
        /\ "repomd_signed" \in ops
        /\ "key_exported" \in ops
====
